---- MODULE Spec2Model ----
(***************************************************************************)
(* Token lifecycle (StravaAPI.ensureValidToken) and response cache         *)
(* (InMemoryCache) of the 3800km dashboard, as one state machine.          *)
(*                                                                         *)
(* Time is the value of Date.now() in milliseconds.  The cache reads it in *)
(* milliseconds, the token checks in whole seconds (Math.floor(now/1000)). *)
(***************************************************************************)
EXTENDS Integers, Sequences, FiniteSets, TLC

VARIABLES
    cache,      \* InMemoryCache.cache: the Map, as the sequence of its entries in iteration order
    stats,      \* InMemoryCache.stats
    hung,       \* TRUE once a call entered a loop that never ends (the event loop is blocked for good)
    now,        \* Date.now(), milliseconds
    last,       \* history: the last cache operation, its argument and what it returned
    run,        \* history: the sets made since the cache was last known empty
    store,      \* the users table: user id -> credential row
    req,        \* the in-flight requests: caller -> position, arguments, locals, result
    issued,     \* how many token triples the issuer has handed out
    nreq,       \* how many requests have been started
    ops,        \* how many cache operations have been called
    fetch,      \* the requests GET /api/activities: fetcher -> position, locals, result
    sync        \* the listing of POST /api/sync-activities: syncer -> position, locals, result

vars == <<cache, stats, hung, now, last, run, store, req, issued, nreq, ops, fetch, sync>>

cacheVars == <<cache, stats, hung, last, run, ops>>
tokenVars == <<store, req, issued, nreq, sync>>

---------------------------------------------------------------------------
(* Bounds of the model *)

\* capacity of the cache instance under test (the constructor's maxSize)
MaxSize == 2
\* at most this many cache operations are called
MaxOps == 4
\* the clock advances at most this many times
MaxTicks == 2
\* at most this many requests are started
MaxRequests == 2
\* getStats is examined for hit and miss counts up to this number
MaxCount == 32
\* the upstream listing has at most this many pages that are not empty
MaxPages == 2
\* the page size asked of the upstream listing (200 in the code, scaled down)
perPage == 2
\* filterHikingActivities is examined on lists of up to this many activities
MaxActs == 2

\* one step of the clock: one minute, in milliseconds
TickMs == 60 * 1000
\* the clock starts two hours and half a second after the epoch: past expiry instants exist
\* and Date.now() is not a whole number of seconds
StartMs == 2 * 3600 * 1000 + 500
StartS == StartMs \div 1000

\* the keys offered to the cache: the empty string and MaxSize further keys
KeyPool == <<"", "a", "b", "c", "d", "e">>
Keys == {KeyPool[i] : i \in 1..(MaxSize + 1)}

\* the values offered to the cache: JSON arrays of one-digit numbers
Values == {<< >>, <<1, 2>>}

\* the ttlMinutes arguments offered to set
TtlMinutes == {1}

---------------------------------------------------------------------------
(* InMemoryCache *)

\* JSON.stringify(value).length for an array of one-digit numbers: "[]", "[1]", "[1,2]", ...
JsonLength(value) == IF Len(value) = 0 THEN 2 ELSE 2 * Len(value) + 1

calculateSize(value) == JsonLength(value) * 2

\* JavaScript truthiness of a string: only the empty string is falsy
TruthyString(s) == s /= ""

\* isExpired counting an entry whose age equals its ttl as expired
isExpiredAtTtl(entry, t) == (t - entry.timestamp) >= entry.ttl

isExpired(entry, t) == (t - entry.timestamp) > entry.ttl

IndexOf(c, key) == CHOOSE i \in 1..Len(c) : c[i].key = key

Has(c, key) == \E i \in 1..Len(c) : c[i].key = key

MapGet(c, key) == c[IndexOf(c, key)]

\* Map.prototype.delete: the other entries keep their order
MapDelete(c, key) == SelectSeq(c, LAMBDA e : e.key /= key)

\* Map.prototype.set: a present key keeps its place in the iteration order, a new key goes last.
\* An entry carries two history fields next to the four of CacheEntry: ins, the ordinal of the
\* set call that put its key into the Map (kept while the key stays in the Map), and read,
\* whether a get has returned the entry.
MapSet(c, entry) ==
    IF Has(c, entry.key)
    THEN [i \in 1..Len(c) |->
            IF c[i].key = entry.key THEN [entry EXCEPT !.ins = c[i].ins] ELSE c[i]]
    ELSE Append(c, entry)

KeysOf(c) == {c[i].key : i \in 1..Len(c)}

\* the cache and its counters, as one value the helpers below transform
\* c: the Map, s: the stats, ev: the entries evictOldest removed (history)

\* evictOldest(): one call
evictOldest(cs) ==
    IF Len(cs.c) = 0 THEN cs
    ELSE LET oldestKey == cs.c[1].key IN
         IF TruthyString(oldestKey)
         THEN LET entry == cs.c[1] IN
              [cs EXCEPT !.c  = MapDelete(cs.c, oldestKey),
                         !.s  = [cs.s EXCEPT !.totalMemoryUsage = @ - calculateSize(entry.value),
                                             !.size = @ - 1],
                         !.ev = Append(cs.ev, entry)]
         ELSE cs

\* while (this.cache.size >= this.maxSize) this.evictOldest()
\* The loop ends when the Map is below capacity; it never ends when a call of evictOldest
\* leaves the Map as it was.
RECURSIVE EvictLoop(_)
EvictLoop(cs) ==
    IF Len(cs.c) >= MaxSize
    THEN LET nxt == evictOldest(cs) IN
         IF nxt.c = cs.c THEN [cs EXCEPT !.spin = TRUE] ELSE EvictLoop(nxt)
    ELSE cs

\* set(key, value, ttlMinutes) up to the end of the capacity loop
SetPrefix(key) ==
    LET afterExisting ==
            IF Has(cache, key)
            THEN [stats EXCEPT !.totalMemoryUsage = @ - calculateSize(MapGet(cache, key).value),
                               !.size = @ - 1]
            ELSE stats
    IN EvictLoop([c |-> cache, s |-> afterExisting, ev |-> << >>, spin |-> FALSE])

NoRet == [present |-> FALSE, value |-> << >>, count |-> 0]

Last(op, key, ret, evicted) ==
    [op |-> op, key |-> key, ret |-> ret, evicted |-> evicted,
     wasPresent |-> Has(cache, key), sizeBefore |-> Len(cache)]

\* run: the set calls made on the empty cache, as long as each is for a key not used before in
\* the run and nothing else was called
RunAfterSet(key, evicted) ==
    IF run.active /\ key \notin run.keys
    THEN [active |-> TRUE, keys |-> run.keys \cup {key}, evictions |-> run.evictions + Len(evicted)]
    ELSE [run EXCEPT !.active = FALSE]

RunOff == [run EXCEPT !.active = FALSE]

\* set(key, value, ttlMinutes): what one call does to the cache
set(key, value, ttlMinutes) ==
    LET ttl   == ttlMinutes * 60 * 1000
        size  == calculateSize(value)
        pre   == SetPrefix(key)
        entry == [key |-> key, value |-> value, timestamp |-> now, ttl |-> ttl,
                  ins |-> stats.sets + 1, read |-> FALSE]
    IN IF pre.spin
       THEN /\ hung' = TRUE
            /\ cache' = pre.c
            /\ stats' = pre.s
            /\ last' = Last("set", key, NoRet, pre.ev)
            /\ run' = RunAfterSet(key, pre.ev)
       ELSE /\ cache' = MapSet(pre.c, entry)
            /\ stats' = [pre.s EXCEPT !.sets = @ + 1,
                                      !.size = @ + 1,
                                      !.totalMemoryUsage = @ + size]
            /\ last' = Last("set", key, NoRet, pre.ev)
            /\ run' = RunAfterSet(key, pre.ev)
            /\ UNCHANGED hung

Set(key, value, ttlMinutes) ==
    /\ ~hung
    /\ ops < MaxOps
    /\ ops' = ops + 1
    /\ set(key, value, ttlMinutes)
    /\ UNCHANGED <<now, tokenVars, fetch>>

\* get(key) as a least-recently-used cache would do it: a hit moves the entry to the end of the Map
getLru(c, s, key, t) ==
    IF ~Has(c, key)
    THEN [c |-> c, s |-> [s EXCEPT !.misses = @ + 1], ret |-> NoRet]
    ELSE LET entry == MapGet(c, key) IN
         IF isExpired(entry, t)
         THEN [c   |-> MapDelete(c, key),
               s   |-> [s EXCEPT !.misses = @ + 1,
                                 !.deletes = @ + 1,
                                 !.size = @ - 1,
                                 !.totalMemoryUsage = @ - calculateSize(entry.value)],
               ret |-> NoRet]
         ELSE [c   |-> Append(MapDelete(c, key), [entry EXCEPT !.read = TRUE]),
               s   |-> [s EXCEPT !.hits = @ + 1],
               ret |-> [NoRet EXCEPT !.present = TRUE, !.value = entry.value]]

\* get(key) that removes an expired entry without counting a miss
getSkipsMissOnExpired(c, s, key, t) ==
    IF ~Has(c, key)
    THEN [c |-> c, s |-> [s EXCEPT !.misses = @ + 1], ret |-> NoRet]
    ELSE LET entry == MapGet(c, key) IN
         IF isExpired(entry, t)
         THEN [c   |-> MapDelete(c, key),
               s   |-> [s EXCEPT !.deletes = @ + 1,
                                 !.size = @ - 1,
                                 !.totalMemoryUsage = @ - calculateSize(entry.value)],
               ret |-> NoRet]
         ELSE [c   |-> [i \in 1..Len(c) |-> IF c[i].key = key THEN [c[i] EXCEPT !.read = TRUE]
                                                               ELSE c[i]],
               s   |-> [s EXCEPT !.hits = @ + 1],
               ret |-> [NoRet EXCEPT !.present = TRUE, !.value = entry.value]]

\* get(key) at time t, as a transformation of the Map and the counters; ret: what it returns
get(c, s, key, t) ==
    IF ~Has(c, key)
    THEN [c |-> c, s |-> [s EXCEPT !.misses = @ + 1], ret |-> NoRet]
    ELSE LET entry == MapGet(c, key) IN
         IF isExpired(entry, t)
         THEN [c   |-> MapDelete(c, key),
               s   |-> [s EXCEPT !.misses = @ + 1,
                                 !.deletes = @ + 1,
                                 !.size = @ - 1,
                                 !.totalMemoryUsage = @ - calculateSize(entry.value)],
               ret |-> NoRet]
         ELSE [c   |-> [i \in 1..Len(c) |-> IF c[i].key = key THEN [c[i] EXCEPT !.read = TRUE]
                                                               ELSE c[i]],
               s   |-> [s EXCEPT !.hits = @ + 1],
               ret |-> [NoRet EXCEPT !.present = TRUE, !.value = entry.value]]

Get(key) ==
    /\ ~hung
    /\ ops < MaxOps
    /\ ops' = ops + 1
    /\ LET r == get(cache, stats, key, now) IN
       /\ cache' = r.c
       /\ stats' = r.s
       /\ last' = Last("get", key, r.ret, << >>)
    /\ run' = RunOff
    /\ UNCHANGED <<hung, now, tokenVars, fetch>>

\* delete(key) taking the deleted entry back out of the sets counter
deleteUncountsSet(cs, key) ==
    IF Has(cs.c, key)
    THEN [cs EXCEPT !.c  = MapDelete(cs.c, key),
                    !.s  = [cs.s EXCEPT !.deletes = @ + 1,
                                        !.sets = @ - 1,
                                        !.size = @ - 1,
                                        !.totalMemoryUsage = @ - calculateSize(MapGet(cs.c, key).value)],
                    !.ok = TRUE]
    ELSE [cs EXCEPT !.ok = FALSE]

\* delete(key), as a transformation of the Map and the counters; ok: what it returns
delete(cs, key) ==
    IF Has(cs.c, key)
    THEN [cs EXCEPT !.c  = MapDelete(cs.c, key),
                    !.s  = [cs.s EXCEPT !.deletes = @ + 1,
                                        !.size = @ - 1,
                                        !.totalMemoryUsage = @ - calculateSize(MapGet(cs.c, key).value)],
                    !.ok = TRUE]
    ELSE [cs EXCEPT !.ok = FALSE]

Delete(key) ==
    /\ ~hung
    /\ ops < MaxOps
    /\ ops' = ops + 1
    /\ LET r == delete([c |-> cache, s |-> stats, ok |-> FALSE], key) IN
       /\ cache' = r.c
       /\ stats' = r.s
       /\ last' = Last("delete", key, [NoRet EXCEPT !.present = r.ok], << >>)
    /\ run' = RunOff
    /\ UNCHANGED <<hung, now, tokenVars, fetch>>

\* clear() that also resets the lifetime counters
ClearResetsCounters ==
    /\ ~hung
    /\ ops < MaxOps
    /\ ops' = ops + 1
    /\ cache' = << >>
    /\ stats' = [hits |-> 0, misses |-> 0, sets |-> 0, deletes |-> 0, size |-> 0,
                 totalMemoryUsage |-> 0]
    /\ last' = Last("clear", "", NoRet, << >>)
    /\ run' = [active |-> TRUE, keys |-> {}, evictions |-> 0]
    /\ UNCHANGED <<hung, now, tokenVars, fetch>>

Clear ==
    /\ ~hung
    /\ ops < MaxOps
    /\ ops' = ops + 1
    /\ cache' = << >>
    /\ stats' = [stats EXCEPT !.size = 0, !.totalMemoryUsage = 0]
    /\ last' = Last("clear", "", NoRet, << >>)
    /\ run' = [active |-> TRUE, keys |-> {}, evictions |-> 0]
    /\ UNCHANGED <<hung, now, tokenVars, fetch>>

\* the second loop of cleanup(): delete each collected key in turn, counting the successes
RECURSIVE DeleteAll(_, _, _)
DeleteAll(cs, expiredKeys, removedCount) ==
    IF Len(expiredKeys) = 0 THEN [c |-> cs.c, s |-> cs.s, removedCount |-> removedCount]
    ELSE LET r == delete(cs, Head(expiredKeys)) IN
         DeleteAll(r, Tail(expiredKeys), IF r.ok THEN removedCount + 1 ELSE removedCount)

\* cleanup() that spares the expired entries a get has returned
CleanupSparesRead ==
    /\ ~hung
    /\ ops < MaxOps
    /\ ops' = ops + 1
    /\ LET expired == SelectSeq(cache, LAMBDA e : isExpired(e, now) /\ ~e.read)
           expiredKeys == [i \in 1..Len(expired) |-> expired[i].key]
           r == DeleteAll([c |-> cache, s |-> stats, ok |-> FALSE], expiredKeys, 0)
       IN /\ cache' = r.c
          /\ stats' = r.s
          /\ last' = Last("cleanup", "", [NoRet EXCEPT !.count = r.removedCount], << >>)
    /\ run' = RunOff
    /\ UNCHANGED <<hung, now, tokenVars, fetch>>

Cleanup ==
    /\ ~hung
    /\ ops < MaxOps
    /\ ops' = ops + 1
    /\ LET expired == SelectSeq(cache, LAMBDA e : isExpired(e, now))
           expiredKeys == [i \in 1..Len(expired) |-> expired[i].key]
           r == DeleteAll([c |-> cache, s |-> stats, ok |-> FALSE], expiredKeys, 0)
       IN /\ cache' = r.c
          /\ stats' = r.s
          /\ last' = Last("cleanup", "", [NoRet EXCEPT !.count = r.removedCount], << >>)
    /\ run' = RunOff
    /\ UNCHANGED <<hung, now, tokenVars, fetch>>

\* A percentage is held as a whole number of hundredths of a percent: 14.38 is 1438.
\* Math.round(x * 100) / 100 for x = (part / total) * 100: the nearest hundredth, a half
\* going up.
roundedRate(part, total) == (2 * 10000 * part + total) \div (2 * total)

\* the same with the digits after the second decimal cut off
truncatedRate(part, total) == (10000 * part) \div total

getStatsTruncated(s) ==
    LET totalRequests == s.hits + s.misses
    IN [hits |-> s.hits, misses |-> s.misses, sets |-> s.sets, deletes |-> s.deletes,
        size |-> s.size, totalMemoryUsage |-> s.totalMemoryUsage,
        hitRate |-> IF totalRequests > 0 THEN truncatedRate(s.hits, totalRequests) ELSE 0,
        missRate |-> IF totalRequests > 0 THEN truncatedRate(s.misses, totalRequests) ELSE 0]

\* getStats(): the counters and the two derived percentages
getStats(s) ==
    LET totalRequests == s.hits + s.misses
    IN [hits |-> s.hits, misses |-> s.misses, sets |-> s.sets, deletes |-> s.deletes,
        size |-> s.size, totalMemoryUsage |-> s.totalMemoryUsage,
        hitRate |-> IF totalRequests > 0 THEN roundedRate(s.hits, totalRequests) ELSE 0,
        missRate |-> IF totalRequests > 0 THEN roundedRate(s.misses, totalRequests) ELSE 0]

GetStats ==
    /\ ~hung
    /\ last' = Last("getStats", "", getStats(stats), << >>)
    /\ UNCHANGED <<cache, stats, hung, run, ops, now, tokenVars, fetch>>

\* time passes
Tick ==
    /\ ~hung
    /\ now < StartMs + MaxTicks * TickMs
    /\ now' = now + TickMs
    /\ UNCHANGED <<cacheVars, tokenVars, fetch>>

---------------------------------------------------------------------------
(* StravaAPI: token checks and ensureValidToken *)

Users == {"u1", "u2"}
Callers == {"r1", "r2"}

\* Tokens are numbers; 0 stands for a field that is missing or empty (falsy in JavaScript).
\* The k-th credential ever issued is the pair AccessOf(k), RefreshOf(k).
AccessOf(k) == 1000 + k
RefreshOf(k) == 2000 + k
UserIndex(u) == IF u = "u1" THEN 1 ELSE 2

\* lifetime the issuer gives a new access token: six hours, in seconds
IssuerLifetime == 6 * 3600

\* the expiry instants a stored credential starts with (seconds since the epoch)
ExpiryChoices == {StartS - 10, StartS + 60, StartS + 3600, StartS + 3601, StartS + IssuerLifetime}

\* JavaScript truthiness of a token string or a number
Truthy(x) == x /= 0

\* Math.floor(Date.now() / 1000)
currentTime(t) == t \div 1000

\* shouldRefreshToken with the boundary left out: a token with exactly one hour left is kept
shouldRefreshTokenStrict(expiresAt, t) ==
    LET timeUntilExpiry == expiresAt - currentTime(t)
        oneHour == 3600
    IN timeUntilExpiry < oneHour

shouldRefreshToken(expiresAt, t) ==
    LET timeUntilExpiry == expiresAt - currentTime(t)
        oneHour == 3600
    IN timeUntilExpiry <= oneHour

isTokenExpired(expiresAt, t) == currentTime(t) >= expiresAt

\* What the issuer can answer to the k-th issuance asked at time t: a network failure, a non-2xx
\* status, a 2xx status with a field missing, or a 2xx status with a whole triple.
Triple(k, t) ==
    [access_token |-> AccessOf(k), refresh_token |-> RefreshOf(k),
     expires_at |-> currentTime(t) + IssuerLifetime]

NoBody == [access_token |-> 0, refresh_token |-> 0, expires_at |-> 0]

IssuerAnswers(k, t) ==
    {[kind |-> "networkError", status |-> 0, body |-> NoBody]}
    \cup {[kind |-> "response", status |-> st, body |-> NoBody] : st \in {400, 401, 500}}
    \cup {[kind |-> "response", status |-> 200, body |-> b] :
            b \in {Triple(k, t),
                   [Triple(k, t) EXCEPT !.access_token = 0],
                   [Triple(k, t) EXCEPT !.refresh_token = 0],
                   [Triple(k, t) EXCEPT !.expires_at = 0]}}

\* Response.ok
ResponseOk(status) == status >= 200 /\ status <= 299

\* refreshToken without the check of expires_at in the answer
refreshTokenNoExpiryCheck(answer) ==
    IF answer.kind = "networkError"
    THEN [ok |-> FALSE, error |-> "fetch failed", data |-> NoBody]
    ELSE IF ~ResponseOk(answer.status)
    THEN [ok |-> FALSE, error |-> "Token refresh failed: status", data |-> NoBody]
    ELSE LET tokenData == answer.body IN
         IF ~Truthy(tokenData.access_token) \/ ~Truthy(tokenData.refresh_token)
         THEN [ok |-> FALSE, error |-> "Invalid token response from Strava API", data |-> NoBody]
         ELSE [ok |-> TRUE, error |-> "", data |-> tokenData]

\* refreshToken(refreshToken), from the issuer's answer on: the token data, or the error thrown
refreshToken(answer) ==
    IF answer.kind = "networkError"
    THEN [ok |-> FALSE, error |-> "fetch failed", data |-> NoBody]
    ELSE IF ~ResponseOk(answer.status)
    THEN [ok |-> FALSE,
          error |-> IF answer.status = 400 THEN "Invalid refresh token or client credentials"
                    ELSE IF answer.status = 401 THEN "Refresh token has been revoked or expired"
                    ELSE "Token refresh failed: status",
          data |-> NoBody]
    ELSE LET tokenData == answer.body IN
         IF ~Truthy(tokenData.access_token) \/ ~Truthy(tokenData.refresh_token)
                \/ ~Truthy(tokenData.expires_at)
         THEN [ok |-> FALSE, error |-> "Invalid token response from Strava API", data |-> NoBody]
         ELSE [ok |-> TRUE, error |-> "", data |-> tokenData]

NoAnswer == [kind |-> "none", status |-> 0, body |-> NoBody]

\* a request that has not started
IdleReq ==
    [pc |-> "idle", userId |-> "u1",
     currentAccessToken |-> 0, currentRefreshToken |-> 0, expiresAt |-> 0,
     newTokenData |-> NoBody, ret |-> 0, error |-> "",
     checkedAt |-> 0, reason |-> "",
     issuerCalls |-> 0, issuerSent |-> 0, issuerAnswer |-> NoAnswer,
     updates |-> 0, updateKey |-> "", updatePayload |-> NoBody, updateResult |-> "none",
     afterFailure |-> FALSE, afterWriteFailure |-> FALSE]

\* ensureValidToken refreshing whatever the check says
ensureValidTokenAlwaysRefresh(r, t) ==
    [r EXCEPT !.pc = "awaitIssuer",
              !.checkedAt = t,
              !.reason = IF isTokenExpired(r.expiresAt, t) THEN "expired" ELSE "expires_soon",
              !.issuerCalls = @ + 1,
              !.issuerSent = r.currentRefreshToken]

\* ensureValidToken deciding by isTokenExpired instead of shouldRefreshToken
ensureValidTokenWhenExpired(r, t) ==
    IF ~isTokenExpired(r.expiresAt, t)
    THEN [r EXCEPT !.pc = "returned", !.ret = r.currentAccessToken, !.checkedAt = t]
    ELSE [r EXCEPT !.pc = "awaitIssuer",
                   !.checkedAt = t,
                   !.reason = "expired",
                   !.issuerCalls = @ + 1,
                   !.issuerSent = r.currentRefreshToken]

\* ensureValidToken up to its first await: the check and, when refresh is due, the issuer call
ensureValidTokenStart(r, t) ==
    IF ~shouldRefreshToken(r.expiresAt, t)
    THEN [r EXCEPT !.pc = "returned", !.ret = r.currentAccessToken, !.checkedAt = t]
    ELSE [r EXCEPT !.pc = "awaitIssuer",
                   !.checkedAt = t,
                   !.reason = IF isTokenExpired(r.expiresAt, t) THEN "expired" ELSE "expires_soon",
                   !.issuerCalls = @ + 1,
                   !.issuerSent = r.currentRefreshToken]

\* the update keeping the refresh token the caller held
updateRequestOldRefresh(r, newTokenData) ==
    [key |-> r.userId,
     payload |-> [access_token |-> newTokenData.access_token,
                  refresh_token |-> r.currentRefreshToken,
                  expires_at |-> newTokenData.expires_at]]

\* the row and key of the update sent to the users table
updateRequest(r, newTokenData) ==
    [key |-> r.userId,
     payload |-> [access_token |-> newTokenData.access_token,
                  refresh_token |-> newTokenData.refresh_token,
                  expires_at |-> newTokenData.expires_at]]

\* ensureValidToken from the issuer's answer to its second await (or to its catch block)
ensureValidTokenAfterIssuer(r, answer) ==
    LET res == refreshToken(answer) IN
    IF res.ok
    THEN LET u == updateRequest(r, res.data) IN
         [r EXCEPT !.pc = "awaitStore",
                   !.issuerAnswer = answer,
                   !.newTokenData = res.data,
                   !.updates = @ + 1,
                   !.updateKey = u.key,
                   !.updatePayload = u.payload]
    ELSE [r EXCEPT !.pc = "thrown",
                   !.issuerAnswer = answer,
                   !.error = "Token refresh failed. Re-authentication required."]

\* ensureValidToken failing when the store reports an error
ensureValidTokenThrowOnUpdateError(r, updateError) ==
    IF updateError
    THEN [r EXCEPT !.pc = "thrown",
                   !.error = "Token refresh failed. Re-authentication required.",
                   !.updateResult = "error"]
    ELSE [r EXCEPT !.pc = "returned",
                   !.ret = r.newTokenData.access_token,
                   !.updateResult = "ok"]

\* ensureValidToken from the answer of the store on
ensureValidTokenAfterUpdate(r, updateError) ==
    [r EXCEPT !.pc = "returned",
              !.ret = r.newTokenData.access_token,
              !.updateResult = IF updateError THEN "error" ELSE "ok"]

\* the users table applying update(...).eq('id', key)
ApplyUpdate(st, key, payload) ==
    [u \in DOMAIN st |-> IF u = key THEN payload ELSE st[u]]

\* history: an earlier call for user u failed to refresh the credential the table still holds
FailedBefore(u) ==
    \E c2 \in Callers :
        /\ req[c2].pc = "thrown"
        /\ req[c2].userId = u
        /\ req[c2].currentRefreshToken = store[u].refresh_token

\* history: an earlier call for user u refreshed but could not write, and the table still holds
\* the credential that call was given
WriteFailedBefore(u) ==
    \E c2 \in Callers :
        /\ req[c2].updateResult = "error"
        /\ req[c2].userId = u
        /\ req[c2].currentAccessToken = store[u].access_token
        /\ req[c2].currentRefreshToken = store[u].refresh_token
        /\ req[c2].expiresAt = store[u].expires_at

\* the store answering an update with an error after writing the row all the same
StoreRespondWritesAnyway(c) ==
    /\ req[c].pc = "awaitStore"
    /\ \E updateError \in BOOLEAN :
        /\ store' = ApplyUpdate(store, req[c].updateKey, req[c].updatePayload)
        /\ req' = [req EXCEPT ![c] = ensureValidTokenAfterUpdate(req[c], updateError)]
    /\ UNCHANGED <<issued, nreq, now, cacheVars, fetch, sync>>

\* POST /api/sync-activities reads the user's row
Request(c, u) ==
    /\ req[c].pc \in {"idle", "returned", "thrown"}
    /\ nreq < MaxRequests
    /\ nreq' = nreq + 1
    /\ req' = [req EXCEPT ![c] = [IdleReq EXCEPT !.pc = "selected",
                                                 !.userId = u,
                                                 !.currentAccessToken = store[u].access_token,
                                                 !.currentRefreshToken = store[u].refresh_token,
                                                 !.expiresAt = store[u].expires_at,
                                                 !.afterFailure = FailedBefore(u),
                                                 !.afterWriteFailure = WriteFailedBefore(u)]]
    /\ UNCHANGED <<store, issued, now, cacheVars, fetch, sync>>

EnsureStart(c) ==
    /\ req[c].pc = "selected"
    /\ req' = [req EXCEPT ![c] = ensureValidTokenStart(req[c], now)]
    /\ UNCHANGED <<store, issued, nreq, now, cacheVars, fetch, sync>>

IssuerRespond(c) ==
    /\ req[c].pc = "awaitIssuer"
    /\ \E answer \in IssuerAnswers(Cardinality(Users) + issued + 1, now) :
        /\ req' = [req EXCEPT ![c] = ensureValidTokenAfterIssuer(req[c], answer)]
        /\ issued' = IF answer.kind = "response" /\ ResponseOk(answer.status)
                     THEN issued + 1 ELSE issued
    /\ UNCHANGED <<store, nreq, now, cacheVars, fetch, sync>>

StoreRespond(c) ==
    /\ req[c].pc = "awaitStore"
    /\ \E updateError \in BOOLEAN :
        /\ store' = IF updateError THEN store
                    ELSE ApplyUpdate(store, req[c].updateKey, req[c].updatePayload)
        /\ req' = [req EXCEPT ![c] = ensureValidTokenAfterUpdate(req[c], updateError)]
    /\ UNCHANGED <<issued, nreq, now, cacheVars, fetch, sync>>

---------------------------------------------------------------------------
(* StravaAPI: the paginated listing and the hiking filter *)

\* A string that the code searches is held as the sequence of its characters.
hashtag == <<"#", "3", "8", "0", "0", "k", "m">>

hikingTypes == {"Hike"}

\* String.prototype.toLowerCase, on the characters in use
LowerChar(ch) ==
    CASE ch = "K" -> "k"
      [] ch = "M" -> "m"
      [] ch = "D" -> "d"
      [] OTHER -> ch

toLowerCase(str) == [i \in 1..Len(str) |-> LowerChar(str[i])]

\* String.prototype.includes
includes(str, part) ==
    \E i \in 0..(Len(str) - Len(part)) : SubSeq(str, i + 1, i + Len(part)) = part

\* an activity's description: null (or left out), or a string
NullDescription == [present |-> FALSE, text |-> << >>]
Text(str) == [present |-> TRUE, text |-> str]

\* JavaScript truthiness of a description: null and the empty string are falsy
TruthyDescription(d) == d.present /\ d.text /= << >>

\* the filter with the two tests joined by "or"
includedEither(activity) ==
    LET isHikingType == activity.type \in hikingTypes \/ activity.sport_type \in hikingTypes
        hasHashtag == /\ TruthyDescription(activity.description)
                      /\ includes(toLowerCase(activity.description.text), toLowerCase(hashtag))
    IN isHikingType \/ hasHashtag

\* the callback of activities.filter in filterHikingActivities and in GET
included(activity) ==
    LET isHikingType == activity.type \in hikingTypes \/ activity.sport_type \in hikingTypes
        hasHashtag == /\ TruthyDescription(activity.description)
                      /\ includes(toLowerCase(activity.description.text), toLowerCase(hashtag))
    IN isHikingType /\ hasHashtag

filterHikingActivities(activities) == SelectSeq(activities, included)

\* the descriptions offered: none, empty, without the marker, the marker, the marker in upper
\* case after other text, and the marker broken by a space
Descriptions ==
    {NullDescription,
     Text(<< >>),
     Text(<<"d", "a", "y">>),
     Text(hashtag),
     Text(<<"D", " ", "#", "3", "8", "0", "0", "K", "M">>),
     Text(<<"#", "3", "8", "0", "0", " ", "k", "m">>)}

ActivityTypes == {"Hike", "Run"}

\* every activity the filter is examined on
AllActivities ==
    [type : ActivityTypes, sport_type : ActivityTypes, description : Descriptions]

\* the activities the upstream listing serves: one that the filter keeps, one of a hiking type
\* without the marker, one with the marker that is no hike
Catalogue ==
    <<[type |-> "Run", sport_type |-> "Hike",
       description |-> Text(<<"D", " ", "#", "3", "8", "0", "0", "K", "M">>)],
      [type |-> "Hike", sport_type |-> "Hike", description |-> NullDescription],
      [type |-> "Run", sport_type |-> "Run", description |-> Text(hashtag)]>>

Listed == {Catalogue[i] : i \in 1..Len(Catalogue)}

\* the sequences over S of length lo..hi
SeqsOf(S, lo, hi) == UNION {[1..n -> S] : n \in lo..hi}

\* what the upstream can answer to a page request: a status and, with 200, a page of up to
\* perPage activities; status 0 stands for a fetch that throws (no response at all)
PageStatuses == {200, 401, 500, 0}

Syncers == {"s1"}

\* a listing not started.  History fields: requests, the page numbers asked of the upstream in
\* order; responses, the answers received in order; refreshes, the token refreshes made.
IdleSync ==
    [pc |-> "idle", page |-> 0, allActivities |-> << >>, requests |-> << >>,
     responses |-> << >>, refreshes |-> 0, error |-> "", hikingActivities |-> << >>]

\* getAllActivities with a short page taken for the last one
getAllActivitiesStopsAtShortPage(r, status, activities) ==
    LET got == [r EXCEPT !.responses = Append(@, [status |-> status, body |-> activities])] IN
    IF ~ResponseOk(status)
    THEN [got EXCEPT !.pc = "thrown",
                     !.error = IF status = 0 THEN "fetch failed"
                               ELSE "Failed to fetch activities"]
    ELSE IF Len(activities) < perPage
         THEN [got EXCEPT !.pc = "listed", !.allActivities = @ \o activities]
         ELSE [got EXCEPT !.allActivities = @ \o activities,
                          !.page = @ + 1,
                          !.requests = Append(@, r.page + 1)]

\* getAllActivities from the answer to getActivities(accessToken, page) on: a failure is thrown
\* on, an empty page ends the loop, any other page is appended and the next page is asked for
getAllActivities(r, status, activities) ==
    LET got == [r EXCEPT !.responses = Append(@, [status |-> status, body |-> activities])] IN
    IF ~ResponseOk(status)
    THEN [got EXCEPT !.pc = "thrown",
                     !.error = IF status = 0 THEN "fetch failed"
                               ELSE "Failed to fetch activities"]
    ELSE IF Len(activities) = 0
         THEN [got EXCEPT !.pc = "listed"]
         ELSE [got EXCEPT !.allActivities = @ \o activities,
                          !.page = @ + 1,
                          !.requests = Append(@, r.page + 1)]

\* POST calls getAllActivities with the token ensureValidToken returned: page 1 is asked for
SyncStart(s) ==
    /\ sync[s].pc = "idle"
    /\ sync' = [sync EXCEPT ![s] = [@ EXCEPT !.pc = "awaitPage", !.page = 1, !.requests = <<1>>]]
    /\ UNCHANGED <<cacheVars, now, store, req, issued, nreq, fetch>>

\* the upstream answers the page request
PageRespond(s) ==
    /\ sync[s].pc = "awaitPage"
    /\ \E status \in PageStatuses :
        \E activities \in (IF status = 200
                           THEN SeqsOf(Listed, 0, IF sync[s].page <= MaxPages THEN perPage ELSE 0)
                           ELSE {<< >>}) :
            sync' = [sync EXCEPT ![s] = getAllActivities(@, status, activities)]
    /\ UNCHANGED <<cacheVars, now, store, req, issued, nreq, fetch>>

\* POST filters what getAllActivities returned
SyncFilter(s) ==
    /\ sync[s].pc = "listed"
    /\ sync' = [sync EXCEPT ![s] =
                    [@ EXCEPT !.pc = "filtered",
                              !.hikingActivities =
                                    filterHikingActivities(sync[s].allActivities)]]
    /\ UNCHANGED <<cacheVars, now, store, req, issued, nreq, fetch>>

---------------------------------------------------------------------------
(* GET /api/activities and its fetchStravaActivities *)

Fetchers == {"f1", "f2"}

\* CACHE_KEYS.STRAVA_ACTIVITIES
STRAVA_ACTIVITIES == "strava:activities"

\* CACHE_KEYS.FILTERED_ACTIVITIES
FILTERED_ACTIVITIES == "strava:filtered_activities"

\* CACHE_TTL.ACTIVITIES, minutes
ACTIVITIES == 15

\* CACHE_TTL.FILTERED_ACTIVITIES, minutes
TTL_FILTERED_ACTIVITIES == 15

\* the statuses the upstream listing answers with; 0 stands for a fetch that throws
UpstreamStatuses == {200, 401, 500, 0}

\* In the cache model a listing is held as the array of the numbers its activities have in
\* the catalogue.  The filter of GET on such a listing:
filteredActivities(activities) == SelectSeq(activities, LAMBDA id : included(Catalogue[id]))

\* a request that has not started.  Locals: forceRefresh; ret, what fetchStravaActivities
\* returned; body and response, the body and status GET answers with; source, where the body
\* came from.  History fields: statuses, the upstream answers in order; refreshed, how
\* refreshStravaToken ended; missed, whether the lookup of the raw listing found nothing;
\* baseSets, baseSize, baseLen, the values of stats.sets, stats.size and the size of the Map
\* right after that lookup; value, setOrd, setAt, the value of its set of the raw listing,
\* stats.sets right after it and the clock at it; fetches and refreshes, the upstream calls
\* and the calls of refreshStravaToken it made.
IdleFetch ==
    [pc |-> "idle", forceRefresh |-> FALSE, ret |-> << >>, error |-> "", statuses |-> << >>,
     refreshed |-> "none", missed |-> FALSE, baseSets |-> 0, baseSize |-> 0, baseLen |-> 0,
     value |-> << >>, setOrd |-> 0, setAt |-> 0, fetches |-> 0, refreshes |-> 0,
     source |-> "none", body |-> << >>, response |-> 0]

\* the thrown error, which GET answers with status 500
Thrown(r, error) == [r EXCEPT !.pc = "thrown", !.error = error, !.response = 500]

\* fetchStravaActivities with a 500 answer read as an empty listing
fetchAfterResponseReadsFailure(r, status, activities) ==
    LET got == [r EXCEPT !.statuses = Append(@, status)] IN
    IF ResponseOk(status) \/ status = 500
    THEN [got EXCEPT !.pc = "fetched", !.ret = activities, !.value = activities,
                     !.source = "upstream"]
    ELSE Thrown(got, IF status = 0 THEN "fetch failed"
                     ELSE IF status = 401 THEN "Strava authorization failed"
                     ELSE "Strava API returned status")

\* fetchStravaActivities from the upstream answer on (first answer or the retry's): a 2xx answer
\* is cached and returned, any other throws
fetchAfterResponse(r, status, activities) ==
    LET got == [r EXCEPT !.statuses = Append(@, status)] IN
    IF ResponseOk(status)
    THEN [got EXCEPT !.pc = "fetched", !.ret = activities, !.value = activities,
                     !.source = "upstream"]
    ELSE Thrown(got, IF status = 0 THEN "fetch failed"
                     ELSE IF status = 401 THEN "Strava authorization failed"
                     ELSE "Strava API returned status")

\* the cache.set of a call that got its 2xx answer, and the call's record of it
FetchStore(f, r) ==
    /\ set(STRAVA_ACTIVITIES, r.value, ACTIVITIES)
    /\ fetch' = [fetch EXCEPT ![f] = [r EXCEPT !.pc = IF hung' THEN "inSet" ELSE "fetched",
                                               !.setOrd = stats'.sets,
                                               !.setAt = now]]

\* the lookup of the filtered result that never finds it
cachedFilteredNever(c, s, forceRefresh, t) ==
    IF forceRefresh
    THEN LET d == delete(delete([c |-> c, s |-> s, ok |-> FALSE], STRAVA_ACTIVITIES),
                         FILTERED_ACTIVITIES)
         IN [c |-> d.c, s |-> d.s, ret |-> NoRet]
    ELSE [c |-> c, s |-> s, ret |-> NoRet]

\* GET before it calls fetchStravaActivities: a forced refresh deletes both keys and looks
\* nothing up, any other request looks the filtered result up
cachedFiltered(c, s, forceRefresh, t) ==
    IF forceRefresh
    THEN LET d == delete(delete([c |-> c, s |-> s, ok |-> FALSE], STRAVA_ACTIVITIES),
                         FILTERED_ACTIVITIES)
         IN [c |-> d.c, s |-> d.s, ret |-> NoRet]
    ELSE get(c, s, FILTERED_ACTIVITIES, t)

\* GET up to its first await: the answer from the filtered result in the cache, or
\* fetchStravaActivities up to its first await: the lookup of the raw listing and, on a miss,
\* the upstream call
GET(f, forceRefresh) ==
    /\ ~hung
    /\ fetch[f].pc = "idle"
    /\ LET h == cachedFiltered(cache, stats, forceRefresh, now)
           g == get(h.c, h.s, STRAVA_ACTIVITIES, now)
           r == [fetch[f] EXCEPT !.forceRefresh = forceRefresh]
       IN IF h.ret.present
          THEN /\ cache' = h.c
               /\ stats' = h.s
               /\ last' = Last("get", FILTERED_ACTIVITIES, h.ret, << >>)
               /\ fetch' = [fetch EXCEPT ![f] = [r EXCEPT !.pc = "responded",
                                                          !.source = "filtered",
                                                          !.body = h.ret.value,
                                                          !.response = 200]]
          ELSE /\ cache' = g.c
               /\ stats' = g.s
               /\ last' = Last("get", STRAVA_ACTIVITIES, g.ret, << >>)
               /\ fetch' = [fetch EXCEPT ![f] =
                                IF g.ret.present
                                THEN [r EXCEPT !.pc = "fetched", !.ret = g.ret.value,
                                               !.source = "raw"]
                                ELSE [r EXCEPT !.pc = "awaitFetch",
                                               !.missed = TRUE,
                                               !.baseSets = g.s.sets,
                                               !.baseSize = g.s.size,
                                               !.baseLen = Len(g.c),
                                               !.fetches = @ + 1]]
    /\ run' = RunOff
    /\ UNCHANGED <<hung, ops, now, tokenVars>>

\* the upstream answers the first call
FetchRespond(f) ==
    /\ ~hung
    /\ fetch[f].pc = "awaitFetch"
    /\ \E status \in UpstreamStatuses, activities \in Values :
        IF status = 401
        THEN /\ fetch' = [fetch EXCEPT ![f] = [@ EXCEPT !.pc = "awaitRefresh",
                                                        !.statuses = Append(@, status),
                                                        !.refreshes = @ + 1]]
             /\ UNCHANGED cacheVars
        ELSE LET r == fetchAfterResponse(fetch[f], status, activities) IN
             IF r.pc = "fetched"
             THEN FetchStore(f, r) /\ UNCHANGED ops
             ELSE fetch' = [fetch EXCEPT ![f] = r] /\ UNCHANGED cacheVars
    /\ UNCHANGED <<now, tokenVars>>

\* refreshStravaToken returns: a new access token, or null
FetchRefreshRespond(f) ==
    /\ ~hung
    /\ fetch[f].pc = "awaitRefresh"
    /\ \E newAccessToken \in {0, AccessOf(0)} :
        fetch' = [fetch EXCEPT ![f] =
                    IF Truthy(newAccessToken)
                    THEN [@ EXCEPT !.pc = "awaitRetry", !.refreshed = "token", !.fetches = @ + 1]
                    ELSE Thrown([@ EXCEPT !.refreshed = "null"], "Strava authorization failed")]
    /\ UNCHANGED <<cacheVars, now, tokenVars>>

\* the retry whose 401 answer starts another refresh
FetchRetryRespondRefreshesAgain(f) ==
    /\ ~hung
    /\ fetch[f].pc = "awaitRetry"
    /\ \E status \in UpstreamStatuses, activities \in Values :
        IF status = 401
        THEN /\ fetch' = [fetch EXCEPT ![f] = [@ EXCEPT !.pc = "awaitRefresh",
                                                        !.statuses = Append(@, status),
                                                        !.refreshes = @ + 1]]
             /\ UNCHANGED cacheVars
        ELSE LET r == fetchAfterResponse(fetch[f], status, activities) IN
             IF r.pc = "fetched"
             THEN FetchStore(f, r) /\ UNCHANGED ops
             ELSE fetch' = [fetch EXCEPT ![f] = r] /\ UNCHANGED cacheVars
    /\ UNCHANGED <<now, tokenVars>>

\* the upstream answers the retry
FetchRetryRespond(f) ==
    /\ ~hung
    /\ fetch[f].pc = "awaitRetry"
    /\ \E status \in UpstreamStatuses, activities \in Values :
        LET r == fetchAfterResponse(fetch[f], status, activities) IN
        IF r.pc = "fetched"
        THEN FetchStore(f, r) /\ UNCHANGED ops
        ELSE fetch' = [fetch EXCEPT ![f] = r] /\ UNCHANGED cacheVars
    /\ UNCHANGED <<now, tokenVars>>

\* GET after fetchStravaActivities returned: the filter, the set of the filtered result and
\* the answer
GetRespond(f) ==
    /\ ~hung
    /\ fetch[f].pc = "fetched"
    /\ set(FILTERED_ACTIVITIES, filteredActivities(fetch[f].ret), TTL_FILTERED_ACTIVITIES)
    /\ fetch' = [fetch EXCEPT ![f] = [@ EXCEPT !.pc = IF hung' THEN "inSet" ELSE "responded",
                                               !.body = filteredActivities(fetch[f].ret),
                                               !.response = IF hung' THEN 0 ELSE 200]]
    /\ UNCHANGED <<ops, now, tokenVars>>

---------------------------------------------------------------------------

InitCache ==
    /\ cache = << >>
    /\ stats = [hits |-> 0, misses |-> 0, sets |-> 0, deletes |-> 0, size |-> 0,
                totalMemoryUsage |-> 0]
    /\ hung = FALSE
    /\ last = [op |-> "new", key |-> "", ret |-> NoRet, evicted |-> << >>,
               wasPresent |-> FALSE, sizeBefore |-> 0]
    /\ run = [active |-> TRUE, keys |-> {}, evictions |-> 0]
    /\ ops = 0

InitToken ==
    /\ store \in {[u \in Users |->
                    [access_token |-> AccessOf(UserIndex(u)),
                     refresh_token |-> RefreshOf(UserIndex(u)),
                     expires_at |-> IF u = "u1" THEN e ELSE StartS + 3601]] : e \in ExpiryChoices}
    /\ req = [c \in Callers |-> IdleReq]
    /\ issued = 0
    /\ nreq = 0

InitFetch == fetch = [f \in Fetchers |-> IdleFetch]

InitSync == sync = [s \in Syncers |-> IdleSync]

Init ==
    /\ now = StartMs
    /\ InitCache
    /\ InitToken
    /\ InitFetch
    /\ InitSync

CacheNext ==
    \/ \E key \in Keys, value \in Values, ttlMinutes \in TtlMinutes : Set(key, value, ttlMinutes)
    \/ \E key \in Keys : Get(key)
    \/ \E key \in Keys : Delete(key)
    \/ Clear
    \/ Cleanup
    \/ Tick

TokenNext ==
    \/ \E c \in Callers, u \in Users : Request(c, u)
    \/ \E c \in Callers : EnsureStart(c)
    \/ \E c \in Callers : IssuerRespond(c)
    \/ \E c \in Callers : StoreRespond(c)
    \/ Tick

\* the requests GET /api/activities, with the clock moving
FetchNext ==
    \/ \E f \in Fetchers, forceRefresh \in BOOLEAN : GET(f, forceRefresh)
    \/ \E f \in Fetchers : FetchRespond(f)
    \/ \E f \in Fetchers : FetchRefreshRespond(f)
    \/ \E f \in Fetchers : FetchRetryRespond(f)
    \/ \E f \in Fetchers : GetRespond(f)
    \/ Tick

\* the listing and the filter of a sync request
SyncNext ==
    \/ \E s \in Syncers : SyncStart(s)
    \/ \E s \in Syncers : PageRespond(s)
    \/ \E s \in Syncers : SyncFilter(s)

Next == CacheNext \/ TokenNext \/ FetchNext \/ SyncNext \/ GetStats

Spec == Init /\ [][Next]_vars

\* the cache alone, with one stored credential set
InitCacheAlone ==
    /\ Init
    /\ store["u1"].expires_at = StartS + IssuerLifetime

SpecCache == InitCacheAlone /\ [][CacheNext]_vars

\* the token path alone
SpecToken == Init /\ [][TokenNext]_vars

\* the cache after the calls set(KeyPool[2], [], 1), ..., set(KeyPool[n + 1], [], 1) made on a
\* new cache at the start of the clock, n <= MaxSize: n entries, nothing evicted
Filled(n) ==
    [i \in 1..n |-> [key |-> KeyPool[i + 1], value |-> << >>, timestamp |-> StartMs,
                     ttl |-> 60 * 1000, ins |-> i, read |-> FALSE]]

InitFilled ==
    /\ now = StartMs
    /\ \E n \in 0..MaxSize :
        /\ cache = Filled(n)
        /\ stats = [hits |-> 0, misses |-> 0, sets |-> n, deletes |-> 0, size |-> n,
                    totalMemoryUsage |-> n * calculateSize(<< >>)]
        /\ ops = n
        /\ last = IF n = 0
                  THEN [op |-> "new", key |-> "", ret |-> NoRet, evicted |-> << >>,
                        wasPresent |-> FALSE, sizeBefore |-> 0]
                  ELSE [op |-> "set", key |-> KeyPool[n + 1], ret |-> NoRet, evicted |-> << >>,
                        wasPresent |-> FALSE, sizeBefore |-> n - 1]
        /\ run = [active |-> TRUE, keys |-> {KeyPool[i + 1] : i \in 1..n}, evictions |-> 0]
    /\ hung = FALSE
    /\ InitToken
    /\ store["u1"].expires_at = StartS + IssuerLifetime
    /\ InitFetch
    /\ InitSync

\* the activities fetch on a cache that other requests have filled to any occupancy
SpecFetch == InitFilled /\ [][FetchNext]_vars

\* the cache after set(KeyPool[2], [], 1), h reads of that key and m reads of a key that is
\* not there, all within the entry's lifetime: any counts of hits and misses
InitCounted ==
    /\ now = StartMs
    /\ \E h \in 0..MaxCount, m \in 0..MaxCount :
        /\ stats = [hits |-> h, misses |-> m, sets |-> 1, deletes |-> 0, size |-> 1,
                    totalMemoryUsage |-> calculateSize(<< >>)]
        /\ cache = [Filled(1) EXCEPT ![1].read = h > 0]
    /\ ops = 0
    /\ last = [op |-> "get", key |-> KeyPool[2], ret |-> NoRet, evicted |-> << >>,
               wasPresent |-> TRUE, sizeBefore |-> 1]
    /\ run = [active |-> FALSE, keys |-> {KeyPool[2]}, evictions |-> 0]
    /\ hung = FALSE
    /\ InitToken
    /\ store["u1"].expires_at = StartS + IssuerLifetime
    /\ InitFetch
    /\ InitSync

StatsNext ==
    \/ GetStats
    \/ \E key \in Keys : Get(key)
    \/ Tick

\* getStats after any counts of hits and misses
SpecStats == InitCounted /\ [][StatsNext]_vars

\* the sync request from the listing on, with one stored credential set
SpecSync == InitCacheAlone /\ [][SyncNext]_vars

\* getAllActivities has returned a list of up to MaxActs activities of any kind, which the
\* upstream served as one page followed by an empty page
InitListed ==
    /\ now = StartMs
    /\ InitCache
    /\ InitToken
    /\ store["u1"].expires_at = StartS + IssuerLifetime
    /\ InitFetch
    /\ \E activities \in SeqsOf(AllActivities, 0, MaxActs) :
        sync = [s \in Syncers |->
                    IF activities = << >>
                    THEN [IdleSync EXCEPT !.pc = "listed", !.page = 1, !.requests = <<1>>,
                                          !.responses = <<[status |-> 200, body |-> << >>]>>]
                    ELSE [IdleSync EXCEPT !.pc = "listed", !.page = 2, !.requests = <<1, 2>>,
                                          !.responses = <<[status |-> 200, body |-> activities],
                                                          [status |-> 200, body |-> << >>]>>,
                                          !.allActivities = activities]]

FilterNext == \E s \in Syncers : SyncFilter(s)

\* filterHikingActivities on every list of up to MaxActs activities
SpecFilter == InitListed /\ [][FilterNext]_vars

---------------------------------------------------------------------------
(* Properties of the cache *)

Range(sq) == {sq[i] : i \in 1..Len(sq)}

RECURSIVE SumSizes(_)
SumSizes(c) == IF Len(c) = 0 THEN 0 ELSE calculateSize(Head(c).value) + SumSizes(Tail(c))

KeyOrder(c) == [i \in 1..Len(c) |-> c[i].key]

\* the entry whose key was put into the Map by the earliest set call
EarliestInserted(c) ==
    CHOOSE e \in {c[i] : i \in 1..Len(c)} : \A i \in 1..Len(c) : e.ins <= c[i].ins

\* C1: after every completed cache operation stats.size is the number of entries in the Map and
\* stats.totalMemoryUsage is the sum of the size estimates of the entries in the Map, so that
\* neither counter is negative.
C1_StatsMatchMap ==
    ~hung =>
        /\ stats.size = Len(cache)
        /\ stats.totalMemoryUsage = SumSizes(cache)
        /\ stats.size >= 0
        /\ stats.totalMemoryUsage >= 0

\* C2: a set call for a key that is in the Map removes no entry: the Map holds the same keys
\* after the call as before it, at every occupancy.
C2_ReplaceKeepsKeys ==
    [][(ops' = ops + 1 /\ last'.op = "set" /\ Has(cache, last'.key) /\ ~hung')
        => KeysOf(cache') = KeysOf(cache)]_vars

\* C3: the Map never holds more than maxSize entries, and maxSize + 1 set calls for distinct new
\* keys on an empty cache perform exactly one eviction and leave exactly maxSize entries.
C3_CapacityOneEviction ==
    /\ Len(cache) <= MaxSize
    /\ (run.active /\ Cardinality(run.keys) = MaxSize + 1)
        => (~hung /\ run.evictions = 1 /\ Len(cache) = MaxSize)

\* C4: a set call that inserts a new key into a full Map evicts exactly the entry whose key was
\* inserted earliest among the entries present, whichever entries were read before; and a get
\* that returns an entry leaves the order of eviction as it was.
C4_FifoEviction ==
    [][/\ (ops' = ops + 1 /\ last'.op = "set" /\ ~Has(cache, last'.key)
            /\ Len(cache) >= MaxSize /\ ~hung')
          => /\ last'.evicted = << EarliestInserted(cache) >>
             /\ KeysOf(cache') = (KeysOf(cache) \ {EarliestInserted(cache).key}) \cup {last'.key}
       /\ (ops' = ops + 1 /\ last'.op = "get" /\ last'.ret.present)
          => KeyOrder(cache') = KeyOrder(cache)]_vars

\* C4 happens: a new key was set into a full Map, the entry evicted had been read, and an entry
\* inserted later that was never read is still there.
C4_Witness ==
    /\ ~hung
    /\ last.op = "set" /\ ~last.wasPresent /\ last.sizeBefore = MaxSize
    /\ Len(last.evicted) = 1
    /\ last.evicted[1].read
    /\ \E i \in 1..Len(cache) :
        /\ ~cache[i].read
        /\ cache[i].key /= last.key
        /\ cache[i].ins > last.evicted[1].ins

\* the entries of the Map as the code holds them, without the history fields
Content(c) ==
    [i \in 1..Len(c) |->
        [key |-> c[i].key, value |-> c[i].value, timestamp |-> c[i].timestamp, ttl |-> c[i].ttl]]

\* the step is a call of the named cache operation
CacheCall(op) == ops' = ops + 1 /\ last'.op = op

\* the entries of c that are not expired at time t
Unexpired(c, t) == SelectSeq(c, LAMBDA e : t - e.timestamp <= e.ttl)

\* C15: a cleanup() sweep between any cache operations removes no entry that is not expired at
\* that moment, and after it stats.size and stats.totalMemoryUsage match the Map.
C15_SweepKeepsAccounting ==
    [][CacheCall("cleanup")
        => /\ \A i \in 1..Len(cache) :
                (now - cache[i].timestamp <= cache[i].ttl) => Has(cache', cache[i].key)
           /\ stats'.size = Len(cache')
           /\ stats'.totalMemoryUsage = SumSizes(cache')]_vars

\* C16: set(k, v, ttl) stores v under k with the clock as creation instant; a get(k) on an entry
\* with now - created <= ttl returns its value and keeps it, and a get(k) on an entry with
\* now - created > ttl returns absent, counts a miss and removes the entry.
C16_GetWithinTtl ==
    [][/\ (CacheCall("set") /\ ~hung')
          => \E value \in Values, ttlMinutes \in TtlMinutes :
                /\ Set(last'.key, value, ttlMinutes)
                /\ Has(cache', last'.key)
                /\ MapGet(cache', last'.key).value = value
                /\ MapGet(cache', last'.key).timestamp = now
                /\ MapGet(cache', last'.key).ttl = ttlMinutes * 60 * 1000
       /\ (CacheCall("get") /\ Has(cache, last'.key))
          => LET entry == MapGet(cache, last'.key) IN
             IF now - entry.timestamp <= entry.ttl
             THEN /\ last'.ret = [NoRet EXCEPT !.present = TRUE, !.value = entry.value]
                  /\ Has(cache', last'.key)
             ELSE /\ ~last'.ret.present
                  /\ stats'.misses = stats.misses + 1
                  /\ ~Has(cache', last'.key)]_vars

\* C16 happens: a get returned the value of an entry whose age is exactly its ttl.
C16_Witness ==
    /\ last.op = "get" /\ last.ret.present
    /\ Has(cache, last.key)
    /\ now - MapGet(cache, last.key).timestamp = MapGet(cache, last.key).ttl
    /\ last.ret.value = MapGet(cache, last.key).value

\* C17: every get adds one to exactly one of hits and misses and no other call changes them;
\* an absent key counts a miss only, an expired entry counts a miss and a delete and is
\* removed, a fresh entry counts a hit and leaves entries, size, memory, sets and deletes alone.
C17_GetCountsOnce ==
    [][/\ ~CacheCall("get") => (stats'.hits = stats.hits /\ stats'.misses = stats.misses)
       /\ CacheCall("get")
          => /\ stats'.hits + stats'.misses = stats.hits + stats.misses + 1
             /\ stats'.hits >= stats.hits /\ stats'.misses >= stats.misses
             /\ stats'.sets = stats.sets
             /\ IF ~Has(cache, last'.key)
                THEN /\ stats' = [stats EXCEPT !.misses = @ + 1]
                     /\ cache' = cache
                     /\ ~last'.ret.present
                ELSE LET entry == MapGet(cache, last'.key) IN
                     IF now - entry.timestamp > entry.ttl
                     THEN /\ stats'.misses = stats.misses + 1
                          /\ stats'.deletes = stats.deletes + 1
                          /\ Content(cache') = Content(MapDelete(cache, last'.key))
                          /\ ~last'.ret.present
                     ELSE /\ stats' = [stats EXCEPT !.hits = @ + 1]
                          /\ Content(cache') = Content(cache)
                          /\ last'.ret.present]_vars

\* C17 happens: a get found its key in the Map, expired, and returned absent.
C17_Witness ==
    /\ last.op = "get" /\ last.wasPresent /\ ~last.ret.present
    /\ ~Has(cache, last.key)
    /\ stats.misses >= 1 /\ stats.deletes >= 1

\* C18: cleanup() removes exactly the entries with now - created > ttl, read or not, keeps the
\* others in order, and returns the number of entries removed, by which stats.size drops.
C18_CleanupExactlyExpired ==
    [][CacheCall("cleanup")
        => /\ Content(cache') = Content(Unexpired(cache, now))
           /\ last'.ret.count = Len(cache) - Len(cache')
           /\ stats'.size = stats.size - last'.ret.count
           /\ stats'.deletes = stats.deletes + last'.ret.count]_vars

\* C18 happens: a cleanup removed an entry that had been read and kept one that never was.
C18_Witness ==
    /\ last.op = "cleanup" /\ last.ret.count >= 1
    /\ Len(cache) >= 1
    /\ stats.hits >= 1
    /\ \A i \in 1..Len(cache) : ~cache[i].read

\* C19: clear() empties the Map and sets size and totalMemoryUsage to zero, and leaves hits,
\* misses, sets and deletes as they were.
C19_ClearKeepsCounters ==
    [][CacheCall("clear")
        => /\ cache' = << >>
           /\ stats' = [stats EXCEPT !.size = 0, !.totalMemoryUsage = 0]]_vars

\* C19 happens: a cache that held entries and had counted sets and hits was cleared.
C19_Witness ==
    /\ last.op = "clear" /\ last.sizeBefore >= 1
    /\ Len(cache) = 0
    /\ stats.sets >= 1 /\ stats.hits >= 1
    /\ stats.size = 0

\* C20: no step ever lowers hits, misses, sets or deletes.
C20_CountersNeverDecrease ==
    [][/\ stats'.hits >= stats.hits
       /\ stats'.misses >= stats.misses
       /\ stats'.sets >= stats.sets
       /\ stats'.deletes >= stats.deletes]_vars

\* C20 happens: a delete removed an entry, so size went down while the counters stayed up.
C20_Witness ==
    /\ last.op = "delete" /\ last.ret.present
    /\ stats.deletes >= 1
    /\ stats.size < stats.sets
    /\ stats.size < last.sizeBefore

\* C28: every call of set returns: the capacity loop never runs without end.
C28_SetTerminates == ~hung

\* key k comes before key j in the iteration order of Map c
Precedes(c, k, j) == IndexOf(c, k) < IndexOf(c, j)

\* C29: a set that replaces the value of a present key renews the entry's creation instant and
\* ttl and leaves the key where it was in the eviction order: before the keys it preceded and
\* after the keys it followed.
C29_ReplaceKeepsPosition ==
    [][(CacheCall("set") /\ Has(cache, last'.key) /\ ~hung')
        => /\ Has(cache', last'.key)
           /\ MapGet(cache', last'.key).timestamp = now
           /\ \A j \in KeysOf(cache) \cap KeysOf(cache') :
                j /= last'.key
                => (Precedes(cache', last'.key, j) <=> Precedes(cache, last'.key, j))]_vars

\* rate, in hundredths of a percent, is a hundredth nearest to part / total * 100
NearestHundredth(rate, part, total) ==
    LET d == rate * total - 10000 * part
    IN 2 * (IF d < 0 THEN 0 - d ELSE d) <= total

---------------------------------------------------------------------------
(* Properties of the paginated listing and of the filter *)

\* C23: in the paginated listing a 401 on page p is answered by one token refresh and one retry
\* of page p, with the pages before p not asked for again and their items kept; the listing
\* fails on a 401 only when the retry of the page was answered 401 too.
C23_Retry401OnPage ==
    \A s \in Syncers :
        LET r == sync[s]
            n == Len(r.responses)
        IN (r.pc = "thrown" /\ n >= 1 /\ r.responses[n].status = 401)
           => /\ r.refreshes = 1
              /\ n >= 2
              /\ r.responses[n - 1].status = 401
              /\ r.requests[n] = r.requests[n - 1]
              /\ \A i \in 1..(n - 2) : r.requests[i] = i

RECURSIVE Concat(_)
Concat(bodies) == IF Len(bodies) = 0 THEN << >> ELSE Head(bodies) \o Concat(Tail(bodies))

\* C24: when the upstream serves k pages that are not empty and then an empty one, the listing
\* asks for pages 1..k+1 in increasing order once each, refreshes no token, goes on after a
\* short page, stops at the first empty page and returns the k pages joined in page order.
C24_PagesUntilEmpty ==
    \A s \in Syncers :
        LET r == sync[s]
            n == Len(r.responses)
            allOk == \A i \in 1..n : r.responses[i].status = 200
        IN /\ (r.pc = "awaitPage" /\ allOk)
              => /\ \A i \in 1..n : r.responses[i].body /= << >>
                 /\ r.requests = [i \in 1..(n + 1) |-> i]
           /\ (n >= 1 /\ allOk /\ r.responses[n].body = << >>)
              => /\ r.pc \in {"listed", "filtered"}
                 /\ \A i \in 1..(n - 1) : r.responses[i].body /= << >>
                 /\ r.requests = [i \in 1..n |-> i]
                 /\ r.refreshes = 0
                 /\ r.allActivities = Concat([i \in 1..n |-> r.responses[i].body])
           /\ r.pc \in {"listed", "filtered"}
              => (n >= 1 /\ allOk /\ r.responses[n].body = << >>)

\* C24 happens: a short page, then a full page, then an empty page: three requests, and the
\* items of both pages returned
C24_Witness ==
    \E s \in Syncers :
        /\ sync[s].pc = "listed"
        /\ Len(sync[s].responses) = 3
        /\ Len(sync[s].responses[1].body) \in 1..(perPage - 1)
        /\ Len(sync[s].responses[2].body) = perPage
        /\ sync[s].requests = <<1, 2, 3>>
        /\ Len(sync[s].allActivities) = Len(sync[s].responses[1].body) + perPage

\* type or sport_type is in the allow-list
IsHike(activity) == activity.type = "Hike" \/ activity.sport_type = "Hike"

\* the description is there and holds the marker in some mix of upper and lower case
Markers ==
    {[i \in 1..7 |-> IF i \in up /\ i >= 6 THEN (IF i = 6 THEN "K" ELSE "M") ELSE hashtag[i]] :
        up \in SUBSET {6, 7}}

HasMarker(activity) ==
    /\ activity.description.present
    /\ \E mk \in Markers : \E i \in 0..(Len(activity.description.text) - 7) :
            SubSeq(activity.description.text, i + 1, i + 7) = mk

\* sq with the elements that do not satisfy both tests taken out, in order
RECURSIVE Restrict(_)
Restrict(sq) ==
    IF sq = << >> THEN << >>
    ELSE IF IsHike(Head(sq)) /\ HasMarker(Head(sq))
         THEN <<Head(sq)>> \o Restrict(Tail(sq))
         ELSE Restrict(Tail(sq))

---------------------------------------------------------------------------
(* Properties of GET /api/activities *)

\* both calls of fetchStravaActivities missed the cache before either wrote it and both have
\* returned, f2 wrote last; neither request has gone on to its filter yet
TwoMissesDone(f1, f2) ==
    /\ f1 /= f2
    /\ fetch[f1].pc = "fetched" /\ fetch[f2].pc = "fetched"
    /\ fetch[f1].missed /\ fetch[f2].missed
    /\ fetch[f1].setOrd < fetch[f2].setOrd
    /\ fetch[f2].baseSets < fetch[f1].setOrd

\* C14: two calls that both miss the key before either has written it both fetch upstream and
\* both call set; after both, in a cache that had room for the key, the Map holds one entry
\* for the key, with the value and creation instant of the later set, stats.sets is up by 2 and
\* size is up by 1.
C14_TwoMissesOneEntry ==
    \A f1, f2 \in Fetchers :
        (TwoMissesDone(f1, f2) /\ fetch[f1].baseLen < MaxSize)
        => /\ fetch[f1].fetches >= 1 /\ fetch[f2].fetches >= 1
           /\ Cardinality({i \in 1..Len(cache) : cache[i].key = STRAVA_ACTIVITIES}) = 1
           /\ MapGet(cache, STRAVA_ACTIVITIES).value = fetch[f2].value
           /\ MapGet(cache, STRAVA_ACTIVITIES).timestamp = fetch[f2].setAt
           /\ stats.sets = fetch[f1].baseSets + 2
           /\ stats.size = fetch[f1].baseSize + 1
           /\ Len(cache) = fetch[f1].baseLen + 1

AuthorizationFailed == "Strava authorization failed"

\* C22: in fetchStravaActivities a 401 answer to the first upstream call starts exactly one
\* token refresh and, when that gives a token, exactly one retry; a 401 answer to the retry, or
\* a refresh that gives no token, fails the call with the authorization error and nothing
\* more is called; any other failure of the first call fails it with no refresh and no retry.
C22_OneRefreshOneRetry ==
    \A f \in Fetchers :
        LET r == fetch[f]
            n == Len(r.statuses)
            first401 == n >= 1 /\ r.statuses[1] = 401
        IN /\ r.refreshes <= 1 /\ r.fetches <= 2 /\ n <= r.fetches
           /\ (r.refreshes = 1) <=> first401
           /\ (r.fetches = 2) <=> (first401 /\ r.refreshed = "token")
           /\ (n = 2 /\ r.statuses[2] = 401)
              => (r.pc = "thrown" /\ r.error = AuthorizationFailed)
           /\ r.refreshed = "null"
              => (r.pc = "thrown" /\ r.error = AuthorizationFailed /\ r.fetches = 1)
           /\ (n >= 1 /\ r.statuses[1] /= 401 /\ ~ResponseOk(r.statuses[1]))
              => /\ r.pc = "thrown" /\ r.error /= AuthorizationFailed
                 /\ r.refreshes = 0 /\ r.fetches = 1 /\ n = 1

\* C22 happens: the first call and the one retry were both answered 401
C22_Witness ==
    \E f \in Fetchers :
        /\ fetch[f].pc = "thrown"
        /\ fetch[f].statuses = <<401, 401>>
        /\ fetch[f].fetches = 2 /\ fetch[f].refreshes = 1
        /\ fetch[f].error = AuthorizationFailed

\* C26: a request without forced refresh that finds a fresh entry under the filtered-result
\* key answers with that entry's value at once: no upstream call, no token refresh, one more
\* hit, and no other change of the counters or of the Map.
C26_FilteredHitReturns ==
    [][\A f \in Fetchers :
        (/\ fetch[f].pc = "idle" /\ fetch'[f].pc /= "idle"
         /\ ~fetch'[f].forceRefresh
         /\ Has(cache, FILTERED_ACTIVITIES)
         /\ now - MapGet(cache, FILTERED_ACTIVITIES).timestamp
                <= MapGet(cache, FILTERED_ACTIVITIES).ttl)
        => /\ fetch'[f].pc = "responded"
           /\ fetch'[f].response = 200
           /\ fetch'[f].body = MapGet(cache, FILTERED_ACTIVITIES).value
           /\ fetch'[f].fetches = 0 /\ fetch'[f].refreshes = 0
           /\ fetch'[f].statuses = << >>
           /\ stats' = [stats EXCEPT !.hits = @ + 1]
           /\ Content(cache') = Content(cache)]_vars

\* C26 happens: one request fetched upstream and stored the filtered result, the other was
\* answered from it
C26_Witness ==
    \E f, g \in Fetchers :
        /\ fetch[g].pc = "responded" /\ fetch[g].source = "upstream"
        /\ fetch[f].pc = "responded" /\ fetch[f].source = "filtered"
        /\ fetch[f].fetches = 0
        /\ fetch[f].body = <<1>>
        /\ stats.hits = 1

\* C27: the filtered result and the raw listing are under different keys, and a raw listing in
\* the cache lives longer than the filtered result beside it.
C27_RawOutlivesFiltered ==
    /\ FILTERED_ACTIVITIES /= STRAVA_ACTIVITIES
    /\ (Has(cache, STRAVA_ACTIVITIES) /\ Has(cache, FILTERED_ACTIVITIES))
        => LET raw == MapGet(cache, STRAVA_ACTIVITIES)
               filtered == MapGet(cache, FILTERED_ACTIVITIES)
           IN /\ raw.ttl > filtered.ttl
              /\ raw.timestamp + raw.ttl > filtered.timestamp + filtered.ttl

\* C30: an upstream answer that is not 2xx, a fetch that throws and a refresh that gives no
\* token change nothing in the cache; the request they fail answers 500 and has set nothing;
\* and a request that finds neither key in the cache fetches upstream.
C30_FailureWritesNothing ==
    [][\A f \in Fetchers :
        LET r == fetch[f]
            q == fetch'[f]
            n == Len(q.statuses)
        IN /\ (n > Len(r.statuses) /\ ~ResponseOk(q.statuses[n]))
              => /\ Content(cache') = Content(cache)
                 /\ stats' = stats
                 /\ \/ q.pc = "thrown"
                    \/ n = 1 /\ q.statuses[1] = 401 /\ q.pc = "awaitRefresh"
           /\ (r.refreshed = "none" /\ q.refreshed = "null")
              => (Content(cache') = Content(cache) /\ stats' = stats /\ q.pc = "thrown")
           /\ q.pc = "thrown" => (q.response = 500 /\ q.body = << >> /\ q.setOrd = 0)
           /\ (/\ r.pc = "idle" /\ q.pc /= "idle"
               /\ ~Has(cache, STRAVA_ACTIVITIES) /\ ~Has(cache, FILTERED_ACTIVITIES))
              => (q.pc = "awaitFetch" /\ q.fetches = 1)]_vars

\* C30 happens: a request failed on a 500 answer to its retry, neither key is in the cache,
\* and the other request is fetching upstream
C30_Witness ==
    \E f, g \in Fetchers :
        /\ fetch[f].pc = "thrown"
        /\ fetch[f].statuses = <<401, 500>>
        /\ ~Has(cache, STRAVA_ACTIVITIES) /\ ~Has(cache, FILTERED_ACTIVITIES)
        /\ fetch[g].pc = "awaitFetch" /\ fetch[g].fetches = 1

---------------------------------------------------------------------------
(* Properties of ensureValidToken *)

\* the clock, in whole seconds, when the request made its check
CheckS(r) == r.checkedAt \div 1000

Started(r) == r.pc \notin {"idle", "selected"}

\* refresh was due at the check: at most 3600 seconds of lifetime left
Due(r) == r.expiresAt - CheckS(r) <= 3600

\* the issuer's answer is a 2xx response carrying the three fields
WholeAnswer(a) ==
    /\ a.kind = "response"
    /\ a.status >= 200 /\ a.status <= 299
    /\ a.body.access_token /= 0 /\ a.body.refresh_token /= 0 /\ a.body.expires_at /= 0

ReauthRequired == "Token refresh failed. Re-authentication required."

\* C5: when the store update after a successful refresh fails, ensureValidToken still returns,
\* and what it returns is the access token of the issuer's answer, not the token the caller held.
C5_ReturnsNewTokenOnWriteFailure ==
    \A c \in Callers :
        req[c].updateResult = "error"
        => /\ req[c].pc = "returned"
           /\ req[c].ret = req[c].issuerAnswer.body.access_token
           /\ req[c].ret /= req[c].currentAccessToken

C5_Witness ==
    \E c \in Callers :
        /\ req[c].updateResult = "error"
        /\ req[c].pc = "returned"
        /\ store[req[c].userId].access_token = req[c].currentAccessToken

\* C6: when the issuer answers with a non-2xx status, or with a 2xx status and one of
\* access_token, refresh_token and expires_at missing, ensureValidToken fails with the one
\* re-authentication error, after exactly one issuer call and without any store update.
C6_IssuerFailureIsReauth ==
    \A c \in Callers :
        (req[c].issuerAnswer.kind = "response" /\ ~WholeAnswer(req[c].issuerAnswer))
        => /\ req[c].pc = "thrown"
           /\ req[c].error = ReauthRequired
           /\ req[c].issuerCalls = 1
           /\ req[c].updates = 0
           /\ req[c].updateResult = "none"

C6_Witness ==
    \E c \in Callers :
        /\ req[c].pc = "thrown"
        /\ req[c].issuerAnswer.status = 200
        /\ req[c].issuerAnswer.body.access_token /= 0
        /\ req[c].issuerAnswer.body.refresh_token /= 0
        /\ req[c].issuerAnswer.body.expires_at = 0

\* C7: when refresh is due and the issuer succeeds, one call of ensureValidToken makes exactly
\* one issuer call, with the caller's refresh token, and exactly one store update, keyed by the
\* given user and carrying the three fields of that issuer answer; an update the store accepts
\* changes that user's row to those three fields and no other row.
C7_OneIssuerCallOneUpdate ==
    [][\A c \in Callers :
        /\ (req'[c].pc \in {"awaitStore", "returned"} /\ Due(req'[c]))
           => /\ req'[c].issuerCalls = 1
              /\ req'[c].issuerSent = req'[c].currentRefreshToken
              /\ WholeAnswer(req'[c].issuerAnswer)
              /\ req'[c].updates = 1
              /\ req'[c].updateKey = req'[c].userId
              /\ req'[c].updatePayload = req'[c].issuerAnswer.body
        /\ (req[c].pc = "awaitStore" /\ req'[c].pc = "returned" /\ req'[c].updateResult = "ok")
           => store' = [store EXCEPT ![req[c].userId] = req[c].issuerAnswer.body]]_vars

C7_Witness ==
    \E c \in Callers :
        /\ req[c].pc = "returned"
        /\ req[c].updateResult = "ok"
        /\ req[c].expiresAt = CheckS(req[c]) - 10
        /\ store[req[c].userId] = req[c].issuerAnswer.body

\* C8: when shouldRefreshToken is false for the caller's expiry, ensureValidToken returns the
\* caller's access token and makes no issuer call and no store update.
C8_NoRefreshNoEffects ==
    \A c \in Callers :
        (Started(req[c]) /\ ~shouldRefreshToken(req[c].expiresAt, req[c].checkedAt))
        => /\ req[c].pc = "returned"
           /\ req[c].ret = req[c].currentAccessToken
           /\ req[c].issuerCalls = 0
           /\ req[c].issuerAnswer = NoAnswer
           /\ req[c].updates = 0
           /\ req[c].updateResult = "none"

C8_Witness ==
    \E c \in Callers :
        /\ req[c].pc = "returned"
        /\ req[c].expiresAt - CheckS(req[c]) = 3601
        /\ req[c].issuerCalls = 0

\* C9: a token ensureValidToken returns is either the token the caller held, which had more than
\* 3600 seconds left at the check, or the access token of the issuer answer received during the
\* call; a held token that had expired at the check is never returned.
C9_ReturnedTokenIsUsable ==
    \A c \in Callers :
        req[c].pc = "returned"
        => /\ \/ /\ req[c].ret = req[c].currentAccessToken
                 /\ req[c].expiresAt - CheckS(req[c]) > 3600
                 /\ req[c].issuerCalls = 0
              \/ /\ WholeAnswer(req[c].issuerAnswer)
                 /\ req[c].ret = req[c].issuerAnswer.body.access_token
           /\ (CheckS(req[c]) >= req[c].expiresAt => req[c].ret /= req[c].currentAccessToken)

C9_Witness ==
    \E c \in Callers :
        /\ req[c].pc = "returned"
        /\ CheckS(req[c]) >= req[c].expiresAt
        /\ req[c].ret = req[c].issuerAnswer.body.access_token
        /\ req[c].ret /= req[c].currentAccessToken


\* C11: once a refresh attempt for a stored credential has failed, no later call of
\* ensureValidToken made with that credential returns a token, as long as nothing but these
\* calls touches the stored credential.
C11_ReauthIsTerminal ==
    \A c \in Callers : req[c].afterFailure => req[c].pc /= "returned"

ConcurrentRefreshesDone(c1, c2) ==
    /\ c1 /= c2
    /\ req[c1].pc = "returned" /\ req[c2].pc = "returned"
    /\ req[c1].userId = req[c2].userId
    /\ req[c1].currentRefreshToken = req[c2].currentRefreshToken
    /\ WholeAnswer(req[c1].issuerAnswer) /\ WholeAnswer(req[c2].issuerAnswer)
    /\ req[c1].updateResult = "ok" /\ req[c2].updateResult = "ok"

\* C13: when two concurrent calls of ensureValidToken on one user have both completed, the
\* store holds the whole triple of the more recent of the two issuer answers.
C13_StoreHoldsLatestTriple ==
    \A c1, c2 \in Callers :
        (/\ ConcurrentRefreshesDone(c1, c2)
         /\ req[c1].issuerAnswer.body.access_token < req[c2].issuerAnswer.body.access_token)
        => store[req[c1].userId] = req[c2].issuerAnswer.body

\* the expiry instants in play: the initial ones and those of the stored rows
ExpiriesInPlay == ExpiryChoices \cup {store[u].expires_at : u \in Users}

\* C10: at every clock value shouldRefreshToken(e) is e - now <= 3600 and isTokenExpired(e) is
\* now >= e (now in whole seconds); ensureValidToken refreshes exactly when shouldRefreshToken
\* says so, and isTokenExpired only chooses the reason it logs.
C10_RefreshDecision ==
    /\ \A e \in ExpiriesInPlay :
        /\ shouldRefreshToken(e, now) <=> (e - (now \div 1000) <= 3600)
        /\ isTokenExpired(e, now) <=> ((now \div 1000) >= e)
    /\ \A c \in Callers :
        Started(req[c])
        => /\ (req[c].issuerCalls = 1) <=> Due(req[c])
           /\ (req[c].issuerCalls = 0) <=> ~Due(req[c])
           /\ Due(req[c]) =>
                (req[c].reason = IF CheckS(req[c]) >= req[c].expiresAt THEN "expired"
                                 ELSE "expires_soon")

C10_Witness ==
    \E c \in Callers :
        /\ req[c].issuerCalls = 1
        /\ req[c].reason = "expires_soon"
        /\ req[c].expiresAt - CheckS(req[c]) = 3600

====
